---- MODULE Spec2Model ----
(***************************************************************************)
(* Model of agent/core.py: the single-threaded monitoring agent.           *)
(*                                                                         *)
(* One thread of control runs BaseAgent.__init__, run_forever,             *)
(* all_task_reg and then sched.scheduler.run, whose events call            *)
(* one_task_reg / task_wrapper and whose idle callback is delayfunc.  The  *)
(* position of that thread is pc; the clock, the scheduler queue, the      *)
(* transport socket and the command connection are the rest of the state.  *)
(* ev describes what the step just taken did (a call record).              *)
(***************************************************************************)
EXTENDS Bags, FiniteSets, Integers, Sequences, TLC

VARIABLES conf,    \* self.conf['monItems']: sequence of task records
          trans,   \* the transport mix-in of the agent class
          timer,   \* the timer object given to __init__
          pc,      \* position of the thread
          now,     \* time.time()
          q,       \* self.scher._queue: bag of pending events
          nreg,    \* number of tasks all_task_reg has passed to one_task_reg
          cur,     \* task being executed and how it was called
          pack,    \* packet built by pack_infor, about to be sent
          sock,    \* state of self.sock (LongTCP, UDP)
          srvUp,   \* the collector / the network is reachable
          conn,    \* state of timer.conn, the accepted command connection
          cmds,    \* number of command connections received so far
          execs,   \* number of task actions run
          fclose,  \* connection_close calls made by run_forever's finally
          horizon, \* the time up to which the run is followed
          ev       \* record of the call made by the last step

vars == <<conf, trans, timer, pc, now, q, nreg, cur, pack, sock, srvUp, conn,
          cmds, execs, fclose, horizon, ev>>

----------------------------------------------------------------------------
(* Bounds of the model *)

\* a run with several tasks is followed from time 0 to MaxTime
MaxTime == 6
\* a run with at most one task is followed from time 0 to LongRun
LongRun == 11
\* a run with a task of period 1 is followed from time 0 to ShortRun
ShortRun == 3
\* a task action or a wait takes at most MaxDur / the timeout
MaxDur == 1
\* command connections the collector opens in one run
MaxCmds == 2
\* length of the day util.attime counts in
DayLen == 4

(* Program constants *)

\* UDPMixIn.send_infor: assert len(pack) < 1400
UDPLimit == 1400
\* pack_infor: len(pack).to_bytes(2, 'big') holds at most 2^16 - 1
MaxBody == 65535
\* pack_infor: the 2-byte length header
HeaderLen == 2

----------------------------------------------------------------------------
(* Configuration *)

MonItem(ty, trig, inter, at, prio) ==
    [monType |-> ty, monTrigger |-> trig, trigInter |-> inter,
     trigTime |-> at, execPrio |-> prio]

\* the monItems lists load_conf may produce
Confs ==
    { << MonItem("ping", "interval", 5, 0, 1) >>,
      << MonItem("cpu", "interval", 2, 0, 2),
         MonItem("mem", "interval", 3, 0, 1) >>,
      << MonItem("cpu", "interval", 3, 0, 1),
         MonItem("disk", "attime", 0, 2, 1) >>,
      << MonItem("net", "interval", 1, 0, 1),
         MonItem("mem", "interval", 3, 0, 2) >>,
      << >> }

\* AgentShortTCP, AgentLongTCP, AgentUDP
Transports == {"ShortTCP", "LongTCP", "UDP"}

\* the timer argument of __init__: the two classes of the module, and any
\* other object keeping wait's documented contract (it returns (cmd, detail)
\* for a received command) with AcceptDelayTrigger's response
Timers == {"SimpleDelayTrigger", "AcceptDelayTrigger", "ContractTimer"}

\* lengths of the JSON body json.dumps(dic) can have
BodyLens == {50, UDPLimit - HeaderLen - 1, UDPLimit - HeaderLen, MaxBody + 1}

\* what a plugin action can do: return a detail or raise
Outcomes ==
    [kind : {"return"}, countable : {TRUE}, body : BodyLens]
    \cup { [kind |-> "return", countable |-> FALSE, body |-> 50] }
    \cup [kind : {"Exception"}, countable : {TRUE}, body : BodyLens]
    \cup { [kind |-> "KeyboardInterrupt", countable |-> TRUE, body |-> 50] }

NoCur == [task |-> 0, via |-> "none", due |-> 0, at |-> 0]
NoPack == [len |-> 0, error |-> FALSE]
NoEv == [op |-> "none"]

----------------------------------------------------------------------------
(* sched.scheduler *)

Event(t, prio, kind, i) == [time |-> t, prio |-> prio, kind |-> kind, task |-> i]

\* scher.enter / scher.enterabs: push the event
enter(queue, e) == queue (+) SetToBag({e})

\* faulty variant (C11): the head is chosen by due time alone
Heads_by_time(queue) ==
    { e \in BagToSet(queue) : \A f \in BagToSet(queue) : e.time <= f.time }

\* q[0] of the heap: an event least in (time, priority)
Heads(queue) ==
    { e \in BagToSet(queue) :
        \A f \in BagToSet(queue) :
            \/ e.time < f.time
            \/ e.time = f.time /\ e.prio <= f.prio }

\* util.attime: the next occurrence of the daily time tt after t
attime(t, tt) == CHOOSE x \in (t + 1)..(t + DayLen) : x % DayLen = tt % DayLen

----------------------------------------------------------------------------
(* BaseAgent *)

\* faulty variant (C2): the next occurrence is entered one time unit off
one_task_reg_time_off(task, t) ==
    IF task.monTrigger = "interval"
    THEN t + task.trigInter + 1
    ELSE attime(t, task.trigTime)

\* one_task_reg, lines 134-140: the due time of the next occurrence,
\* computed when the task fires at clock t
one_task_reg_time(task, t) ==
    IF task.monTrigger = "interval"
    THEN t + task.trigInter
    ELSE attime(t, task.trigTime)

\* faulty variant (C1): one_task_reg runs the task without entering its next event
one_task_reg_skip(queue, i, t) == queue

\* one_task_reg, lines 134-140: the queue after the re-registration
one_task_reg_enter(queue, i, t) ==
    enter(queue, Event(one_task_reg_time(conf[i], t), conf[i].execPrio, "reg", i))

\* faulty variant (C10): a bare except, which takes KeyboardInterrupt for a failure
task_catch_all(o) ==
    IF o.kind = "return"
    THEN [raised |-> FALSE, error |-> FALSE, countable |-> o.countable, body |-> o.body]
    ELSE [raised |-> FALSE, error |-> TRUE, countable |-> TRUE, body |-> o.body]

\* task_catch_except.func: what the wrapped action does with the plugin's outcome
task_catch_except(o) ==
    IF o.kind = "return"
    THEN [raised |-> FALSE, error |-> FALSE, countable |-> o.countable, body |-> o.body]
    ELSE IF o.kind = "KeyboardInterrupt"
    THEN [raised |-> TRUE, error |-> FALSE, countable |-> TRUE, body |-> 0]
    ELSE [raised |-> FALSE, error |-> TRUE, countable |-> TRUE, body |-> o.body]

\* pack_infor: len(detail) needs a countable detail, the header 2 bytes
pack_infor(detail) ==
    IF ~detail.countable THEN [raised |-> TRUE, len |-> 0, error |-> detail.error]
    ELSE IF detail.body > MaxBody THEN [raised |-> TRUE, len |-> 0, error |-> detail.error]
    ELSE [raised |-> FALSE, len |-> HeaderLen + detail.body, error |-> detail.error]

\* connection_close of the agent class
connection_close(s) ==
    IF trans = "ShortTCP" THEN s ELSE "closed"

\* connection_init of the agent class, after the constructor
connection_init(up) ==
    CASE trans = "LongTCP" -> IF up THEN "connected" ELSE "unconnected"
      [] trans = "UDP" -> "open"
      [] OTHER -> "none"

\* run_forever: an exception leaving all_task_reg or scher.run passes the
\* finally clause; where is "done" after KeyboardInterrupt, "crashed" otherwise
Unwind(where) ==
    /\ pc' = where
    /\ sock' = connection_close(sock)
    /\ fclose' = fclose + 1
    /\ cur' = NoCur
    /\ pack' = NoPack

Init ==
    /\ conf \in Confs
    /\ trans \in Transports
    /\ timer \in Timers
    /\ srvUp \in BOOLEAN
    /\ pc = "new"
    /\ now = 0
    /\ q = EmptyBag
    /\ nreg = 0
    /\ cur = NoCur
    /\ pack = NoPack
    /\ sock = "none"
    /\ conn = "none"
    /\ cmds = 0
    /\ execs = 0
    /\ fclose = 0
    /\ horizon = IF Len(conf) <= 1 THEN LongRun
                 ELSE IF \E i \in 1..Len(conf) :
                            conf[i].monTrigger = "interval" /\ conf[i].trigInter = 1
                      THEN ShortRun
                      ELSE MaxTime
    /\ ev = NoEv

\* __init__: connection_init runs before self.logger is set, so the
\* logger.error of a failed LongTCP connect raises AttributeError
Construct ==
    /\ pc = "new"
    /\ IF trans = "LongTCP" /\ ~srvUp
       THEN /\ pc' = "ctor_failed"
            /\ sock' = "unconnected"
            /\ ev' = [op |-> "__init__", raised |-> TRUE]
       ELSE /\ pc' = "constructed"
            /\ sock' = connection_init(srvUp)
            /\ ev' = [op |-> "__init__", raised |-> FALSE]
    /\ UNCHANGED <<conf, trans, timer, now, q, nreg, cur, pack, srvUp, conn,
                   cmds, execs, fclose, horizon>>

\* run_forever enters all_task_reg
RunForever ==
    /\ pc = "constructed"
    /\ pc' = "reg"
    /\ ev' = [op |-> "run_forever"]
    /\ UNCHANGED <<conf, trans, timer, now, q, nreg, cur, pack, sock, srvUp,
                   conn, cmds, execs, fclose, horizon>>

\* faulty variant (C3): all_task_reg only enters the task's first event
RegTaskNoRun ==
    /\ pc = "reg"
    /\ nreg < Len(conf)
    /\ nreg' = nreg + 1
    /\ q' = one_task_reg_enter(q, nreg + 1, now)
    /\ ev' = [op |-> "one_task_reg", task |-> nreg + 1, via |-> "all_task_reg",
              due |-> now, at |-> now,
              next |-> one_task_reg_time(conf[nreg + 1], now)]
    /\ UNCHANGED <<conf, trans, timer, pc, now, cur, pack, sock, srvUp, conn,
                   cmds, execs, fclose, horizon>>

\* all_task_reg: the next task of monItems is passed to one_task_reg, which
\* enters its first recurring event and goes on to task_wrapper
RegTask ==
    /\ pc = "reg"
    /\ nreg < Len(conf)
    /\ nreg' = nreg + 1
    /\ q' = one_task_reg_enter(q, nreg + 1, now)
    /\ cur' = [task |-> nreg + 1, via |-> "all_task_reg", due |-> now, at |-> now]
    /\ pc' = "action"
    /\ ev' = [op |-> "one_task_reg", task |-> nreg + 1, via |-> "all_task_reg",
              due |-> now, at |-> now,
              next |-> one_task_reg_time(conf[nreg + 1], now)]
    /\ UNCHANGED <<conf, trans, timer, now, pack, sock, srvUp, conn, cmds,
                   execs, fclose, horizon>>

\* all_task_reg returns and run_forever calls scher.run
RegDone ==
    /\ pc = "reg"
    /\ nreg = Len(conf)
    /\ pc' = "run"
    /\ ev' = [op |-> "all_task_reg"]
    /\ UNCHANGED <<conf, trans, timer, now, q, nreg, cur, pack, sock, srvUp,
                   conn, cmds, execs, fclose, horizon>>

\* scher.run: the queue is empty, run returns and run_forever closes
RunReturns ==
    /\ pc = "run"
    /\ q = EmptyBag
    /\ Unwind("returned")
    /\ ev' = [op |-> "run", returned |-> TRUE]
    /\ UNCHANGED <<conf, trans, timer, now, q, nreg, srvUp, conn, cmds, execs, horizon>>

\* scher.run: the head event is due; it is popped and its action called.
\* A recurring event calls one_task_reg, a command's event task_wrapper.
Fire ==
    /\ pc = "run"
    /\ \E e \in Heads(q) :
        /\ e.time <= now
        /\ cur' = [task |-> e.task, via |-> e.kind, due |-> e.time, at |-> now]
        /\ IF e.kind = "reg"
           THEN /\ q' = one_task_reg_enter(q (-) SetToBag({e}), e.task, now)
                /\ ev' = [op |-> "one_task_reg", task |-> e.task, via |-> "run",
                          due |-> e.time, at |-> now,
                          next |-> one_task_reg_time(conf[e.task], now)]
           ELSE /\ q' = q (-) SetToBag({e})
                /\ ev' = [op |-> "task_wrapper", task |-> e.task, due |-> e.time,
                          at |-> now]
    /\ pc' = "action"
    /\ UNCHANGED <<conf, trans, timer, now, nreg, pack, sock, srvUp, conn,
                   cmds, execs, fclose, horizon>>

\* task_wrapper: the wrapped action runs for d time units, then pack_infor
\* frames its result
Exec ==
    /\ pc = "action"
    /\ \E o \in Outcomes, d \in 0..MaxDur :
        /\ now + d <= horizon
        /\ now' = now + d
        /\ execs' = execs + 1
        /\ LET r == task_catch_except(o)
               p == pack_infor(r)
           IN  /\ ev' = [op |-> "action", task |-> cur.task, via |-> cur.via,
                         outcome |-> o.kind,
                         raised |-> r.raised, error |-> r.error,
                         packed |-> ~r.raised /\ ~p.raised]
               /\ IF r.raised THEN Unwind("done")
                  ELSE IF p.raised THEN Unwind("crashed")
                  ELSE /\ pc' = "send"
                       /\ pack' = [len |-> p.len, error |-> p.error]
                       /\ UNCHANGED <<cur, sock, fclose>>
    /\ UNCHANGED <<conf, trans, timer, q, nreg, srvUp, conn, cmds, horizon>>

----------------------------------------------------------------------------
(* Transport strategies *)

\* ShortTCPMixIn.send_infor: a socket per packet; connect, send, close.
\* Every socket.error is caught, the finally clause closes the local socket.
ShortTCP_send_infor(len, s, up) ==
    [raised |-> FALSE, ok |-> up, sock |-> s,
     trace |-> IF up THEN <<"connect", "send", "close">>
                     ELSE <<"connect", "close">>]

\* faulty variant (C9): the recovery tries a second connect when the first fails
LongTCP_recover_retry(up) ==
    [trace |-> IF up THEN <<"connection_close", "connect">>
                     ELSE <<"connection_close", "connect", "connect">>,
     sock |-> IF up THEN "connected" ELSE "unconnected"]

\* faulty variant (C19): the socket of the reconnect attempt is not kept
LongTCP_recover_stale(up) ==
    [trace |-> <<"connection_close", "connect">>, sock |-> "unconnected"]

\* LongTCPMixIn.send_infor, lines 283-286: the handler of a failed send
\* calls connection_close and then connection_init, which makes one
\* connect attempt and catches its failure
LongTCP_recover(up) ==
    [trace |-> <<"connection_close", "connect">>,
     sock |-> IF up THEN "connected" ELSE "unconnected"]

\* faulty variant (C20): the packet is sent again after a successful reconnect
LongTCP_send_infor_resend(len, s, up) ==
    IF s = "connected"
    THEN [raised |-> FALSE, ok |-> TRUE, sock |-> s, trace |-> <<"send">>]
    ELSE LET r == LongTCP_recover(up)
         IN  [raised |-> FALSE, ok |-> up, sock |-> r.sock,
              trace |-> <<"send">> \o r.trace
                        \o (IF up THEN <<"send">> ELSE << >>)]

\* LongTCPMixIn.send_infor: one send on self.sock, recovery if it fails
LongTCP_send_infor(len, s, up) ==
    IF s = "connected"
    THEN [raised |-> FALSE, ok |-> TRUE, sock |-> s, trace |-> <<"send">>]
    ELSE LET r == LongTCP_recover(up)
         IN  [raised |-> FALSE, ok |-> FALSE, sock |-> r.sock,
              trace |-> <<"send">> \o r.trace]

\* faulty variant (C8): the length test lets a packet of exactly 1400 bytes pass
UDP_len_le(len) == len <= UDPLimit

\* UDPMixIn.send_infor, line 306: the assertion on the framed length
UDP_len_ok(len) == len < UDPLimit

\* UDPMixIn.send_infor: the AssertionError of a long packet is not a
\* socket.error and leaves send_infor; a failed sendto resets the socket
UDP_send_infor(len, s, up) ==
    IF ~UDP_len_ok(len)
    THEN [raised |-> TRUE, ok |-> FALSE, sock |-> s, trace |-> << >>]
    ELSE IF up
    THEN [raised |-> FALSE, ok |-> TRUE, sock |-> s, trace |-> <<"sendto">>]
    ELSE [raised |-> FALSE, ok |-> FALSE, sock |-> "open",
          trace |-> <<"sendto", "connection_close", "connection_init">>]

\* self.send_infor of the agent class
send_infor(len, s, up) ==
    CASE trans = "ShortTCP" -> ShortTCP_send_infor(len, s, up)
      [] trans = "LongTCP" -> LongTCP_send_infor(len, s, up)
      [] OTHER -> UDP_send_infor(len, s, up)

\* task_wrapper, line 179: the packet is given to send_infor; control goes
\* back to all_task_reg or to scher.run, which calls delayfunc(0)
Send ==
    /\ pc = "send"
    /\ LET r == send_infor(pack.len, sock, srvUp)
       IN  /\ ev' = [op |-> "send_infor", task |-> cur.task, via |-> cur.via,
                     len |-> pack.len, error |-> pack.error,
                     raised |-> r.raised, ok |-> r.ok, trace |-> r.trace,
                     outcome |-> IF r.raised THEN "AssertionError" ELSE "return"]
           /\ IF r.raised
              THEN /\ Unwind("crashed")
              ELSE /\ sock' = r.sock
                   /\ pc' = IF cur.via = "all_task_reg" THEN "reg" ELSE "yield"
                   /\ cur' = NoCur
                   /\ pack' = NoPack
                   /\ UNCHANGED fclose
    /\ UNCHANGED <<conf, trans, timer, now, q, nreg, srvUp, conn, cmds, execs, horizon>>

\* KeyboardInterrupt delivered inside send_infor: no handler of the
\* transport catches it
SendInterrupt ==
    /\ pc = "send"
    /\ Unwind("done")
    /\ ev' = [op |-> "send_infor", task |-> cur.task, via |-> cur.via,
              len |-> pack.len, error |-> pack.error, raised |-> TRUE,
              ok |-> FALSE, trace |-> << >>, outcome |-> "KeyboardInterrupt"]
    /\ UNCHANGED <<conf, trans, timer, now, q, nreg, srvUp, conn, cmds, execs, horizon>>

\* the collector or the network goes away or comes back; an established
\* connection does not survive the outage.  The agent observes the network
\* only when it sends, so the change is taken right before a send.
NetChange ==
    /\ pc = "send"
    /\ srvUp' = ~srvUp
    /\ sock' = IF srvUp /\ sock = "connected" THEN "broken" ELSE sock
    /\ UNCHANGED <<conf, trans, timer, pc, now, q, nreg, cur, pack, conn,
                   cmds, execs, fclose, horizon, ev>>

----------------------------------------------------------------------------
(* The idle callback *)

\* scher.run: delayfunc(time - now) while the head is not due, and
\* delayfunc(0) after an event's action
Waiting == pc = "yield" \/ (pc = "run" /\ \E e \in Heads(q) : e.time > now)

Timeout ==
    IF pc = "yield" THEN 0
    ELSE (CHOOSE e \in Heads(q) : TRUE).time - now

\* requests a collector can send: a configured monType, the reserved
\* 'update', an unknown name, and a request whose cmd is null
Requests ==
    {conf[i].monType : i \in 1..Len(conf)} \cup {"update", "bogus", "null"}

\* mon_types.index(ret_val), 0 when ret_val is not in mon_types
mon_index(cmd) ==
    IF \E i \in 1..Len(conf) : conf[i].monType = cmd
    THEN CHOOSE i \in 1..Len(conf) :
            /\ conf[i].monType = cmd
            /\ \A j \in 1..(i - 1) : conf[j].monType # cmd
    ELSE 0

\* faulty variant (C12): the command enqueues one_task_reg, which re-registers
delayfunc_event_reg(t, i) == Event(t, conf[i].execPrio, "reg", i)

\* delayfunc, lines 201-202: the event enqueued for a matching command
\* calls task_wrapper at time.time() with the task's priority
delayfunc_event(t, i) == Event(t, conf[i].execPrio, "once", i)

\* faulty variant (C13): the branch of an unknown name is missing
delayfunc_route_no_else(ret) ==
    CASE mon_index(ret) # 0 /\ ret \notin {"null", "update"} ->
            [responses |-> 1, isOk |-> TRUE, enq |-> mon_index(ret), detail |-> "none"]
      [] OTHER ->
            [responses |-> 0, isOk |-> FALSE, enq |-> 0, detail |-> "none"]

\* delayfunc, lines 191-207: what is done with the value wait returned
delayfunc_route(ret) ==
    CASE ret = "null" ->
            [responses |-> 0, isOk |-> FALSE, enq |-> 0, detail |-> "none"]
      [] ret = "update" ->
            [responses |-> 0, isOk |-> FALSE, enq |-> 0, detail |-> "none"]
      [] mon_index(ret) # 0 ->
            [responses |-> 1, isOk |-> TRUE, enq |-> mon_index(ret), detail |-> "none"]
      [] OTHER ->
            [responses |-> 1, isOk |-> FALSE, enq |-> 0, detail |-> "invalid cmd"]

\* wait ran into its timeout: time.sleep returned, or accept raised
\* socket.timeout, which closes a connection accepted earlier
DelayTimeout ==
    /\ Waiting
    /\ now + Timeout <= horizon
    /\ now' = now + Timeout
    /\ conn' = IF timer = "SimpleDelayTrigger" \/ conn = "none" THEN conn ELSE "closed"
    /\ pc' = "run"
    /\ ev' = [op |-> "delayfunc", timeout |-> Timeout, accepted |-> FALSE,
              req |-> "none", ret |-> "none", raised |-> FALSE,
              responses |-> 0, isOk |-> FALSE, enq |-> 0, detail |-> "none",
              outcome |-> "return"]
    /\ UNCHANGED <<conf, trans, timer, q, nreg, cur, pack, sock, srvUp, cmds,
                   execs, fclose, horizon>>

\* AcceptDelayTrigger.wait accepts a connection: line 66 binds self.conn,
\* line 68 reads the unbound name conn and raises NameError, which is no
\* socket.error; delayfunc's handler (lines 185-189) answers is_ok=False
\* through response, which closes the connection
DelayAccept ==
    /\ Waiting
    /\ timer = "AcceptDelayTrigger"
    /\ cmds < MaxCmds
    /\ \E d \in 0..Timeout, req \in Requests :
        /\ now + d <= horizon
        /\ now' = now + d
        /\ ev' = [op |-> "delayfunc", timeout |-> Timeout, accepted |-> TRUE,
                  req |-> req, ret |-> "raised", raised |-> FALSE,
                  responses |-> 1, isOk |-> FALSE, enq |-> 0,
                  detail |-> "name 'conn' is not defined", outcome |-> "return"]
    /\ cmds' = cmds + 1
    /\ conn' = "closed"
    /\ pc' = "run"
    /\ UNCHANGED <<conf, trans, timer, q, nreg, cur, pack, sock, srvUp, execs, fclose, horizon>>

\* wait raises an Exception before any connection is accepted, e.g. on the
\* timeout it is given: delayfunc's handler (lines 185-189) calls
\* self.timer.response unconditionally.  SimpleDelayTrigger has no response
\* and a timer that never accepted has no self.conn, so the handler raises
\* AttributeError, which leaves delayfunc, scher.run and run_forever;
\* with an earlier connection response sends on it and closes it.
DelayWaitError ==
    /\ Waiting
    /\ IF timer = "SimpleDelayTrigger" \/ conn = "none"
       THEN /\ Unwind("crashed")
            /\ ev' = [op |-> "delayfunc", timeout |-> Timeout, accepted |-> FALSE,
                      req |-> "none", ret |-> "raised", raised |-> TRUE,
                      responses |-> 0, isOk |-> FALSE, enq |-> 0,
                      detail |-> "wait error", outcome |-> "AttributeError"]
            /\ UNCHANGED conn
       ELSE /\ pc' = "run"
            /\ conn' = "closed"
            /\ ev' = [op |-> "delayfunc", timeout |-> Timeout, accepted |-> FALSE,
                      req |-> "none", ret |-> "raised", raised |-> FALSE,
                      responses |-> 1, isOk |-> FALSE, enq |-> 0,
                      detail |-> "wait error", outcome |-> "return"]
            /\ UNCHANGED <<cur, pack, sock, fclose>>
    /\ UNCHANGED <<conf, trans, timer, now, q, nreg, srvUp, cmds, execs, horizon>>

\* a timer keeping wait's contract returns the received (cmd, detail);
\* delayfunc enqueues the task at time.time() and answers through response
DelayCommand ==
    /\ Waiting
    /\ timer = "ContractTimer"
    /\ cmds < MaxCmds
    /\ \E d \in 0..Timeout, req \in Requests :
        LET r == delayfunc_route(req)
        IN  /\ now + d <= horizon
            /\ now' = now + d
            /\ q' = IF r.enq = 0 THEN q
                    ELSE enter(q, delayfunc_event(now + d, r.enq))
            /\ conn' = IF r.responses > 0 THEN "closed" ELSE "open"
            /\ ev' = [op |-> "delayfunc", timeout |-> Timeout, accepted |-> TRUE,
                      req |-> req, ret |-> req, raised |-> FALSE,
                      responses |-> r.responses, isOk |-> r.isOk, enq |-> r.enq,
                      detail |-> r.detail, outcome |-> "return"]
    /\ cmds' = cmds + 1
    /\ pc' = "run"
    /\ UNCHANGED <<conf, trans, timer, nreg, cur, pack, sock, srvUp, execs, fclose, horizon>>

\* KeyboardInterrupt delivered during the wait: neither wait's nor
\* delayfunc's handler catches it
DelayInterrupt ==
    /\ Waiting
    /\ \E d \in 0..Timeout :
        /\ now + d <= horizon
        /\ now' = now + d
    /\ Unwind("done")
    /\ ev' = [op |-> "delayfunc", timeout |-> Timeout, accepted |-> FALSE,
              req |-> "none", ret |-> "raised", raised |-> TRUE,
              responses |-> 0, isOk |-> FALSE, enq |-> 0, detail |-> "none",
              outcome |-> "KeyboardInterrupt"]
    /\ UNCHANGED <<conf, trans, timer, q, nreg, srvUp, conn, cmds, execs, horizon>>

Next ==
    \/ Send
    \/ SendInterrupt
    \/ NetChange
    \/ DelayTimeout
    \/ DelayAccept
    \/ DelayCommand
    \/ DelayWaitError
    \/ DelayInterrupt
    \/ Construct
    \/ RunForever
    \/ RegTask
    \/ RegDone
    \/ RunReturns
    \/ Fire
    \/ Exec

Spec == Init /\ [][Next]_vars

----------------------------------------------------------------------------
(* Properties *)

\* occurrences of x in a call trace
Count(trace, x) == Cardinality({k \in 1..Len(trace) : trace[k] = x})

\* the recurring events of task i in a queue
RegEvents(queue, i) == {e \in BagToSet(queue) : e.kind = "reg" /\ e.task = i}

\* C1: every task all_task_reg has registered has a recurring event in the
\* pending set at every moment, also while its action and its send run and
\* after an action that raised or a send that failed; the pending set is
\* not empty once a task is registered.
C1_TaskNeverLost ==
    /\ \A i \in 1..nreg : RegEvents(q, i) # {}
    /\ (nreg > 0 => q # EmptyBag)
    /\ (pc \in {"action", "send"} /\ cur.via # "once"
            => \E e \in RegEvents(q, cur.task) : e.time > cur.at)

\* C1 witness: a recurring fire whose action raised and whose send failed
\* has returned to the scheduler
C1_Witness ==
    /\ pc = "yield"
    /\ ev.op = "send_infor" /\ ev.via = "reg" /\ ev.error /\ ~ev.ok

\* C2 as stated: the recurring event due at T is followed by one due at
\* T + N, however late after T it was dispatched
C2_NextAtDuePlusPeriod ==
    (pc \in {"action", "send"} /\ cur.via = "reg"
        /\ conf[cur.task].monTrigger = "interval")
    => \E e \in RegEvents(q, cur.task) :
            e.time = cur.due + conf[cur.task].trigInter

\* C2 amended: the next recurring event is due N after the clock time at
\* which the fire was dispatched (never before T), whatever time the
\* task's own action then takes
C2_NextAtDispatchPlusPeriod ==
    (pc \in {"action", "send"} /\ cur.via = "reg"
        /\ conf[cur.task].monTrigger = "interval")
    => /\ cur.at >= cur.due
       /\ \A e \in RegEvents(q, cur.task) :
            e.time = cur.at + conf[cur.task].trigInter
       /\ RegEvents(q, cur.task) # {}

\* C2 witness: a fire dispatched late whose action took time
C2_Witness ==
    /\ pc = "send" /\ cur.via = "reg"
    /\ conf[cur.task].monTrigger = "interval"
    /\ cur.at > cur.due
    /\ now > cur.at

\* the scenario of one interval task of period 5 with no command received,
\* looked at when the scheduler is between events at time 11
PingScenario ==
    /\ Len(conf) = 1
    /\ conf[1].monTrigger = "interval" /\ conf[1].trigInter = 5
    /\ cmds = 0
    /\ pc = "run" /\ now = 11

\* C3 as stated: all_task_reg runs no action and sends no packet, and the
\* scenario has run the task twice by time 11
C3_FirstRunAfterPeriod ==
    /\ (pc \in {"action", "send"} => cur.via # "all_task_reg")
    /\ (pc = "reg" => execs = 0)
    /\ (PingScenario => execs = 2)

\* C3 amended: all_task_reg runs each task once at registration, the first
\* recurring event of an interval task is due N after its registration,
\* and the scenario has run the task three times by time 11
C3_RunsAtRegistration ==
    /\ (pc = "reg" => execs = nreg)
    /\ (pc \in {"action", "send"} /\ cur.via = "all_task_reg"
            /\ conf[cur.task].monTrigger = "interval"
        => /\ execs = IF pc = "action" THEN nreg - 1 ELSE nreg
           /\ \A e \in RegEvents(q, cur.task) :
                e.time = cur.at + conf[cur.task].trigInter)
    /\ (PingScenario => execs = 3)

\* C3 witness: the scenario has reached time 11
C3_Witness == PingScenario /\ execs = 3

\* C4: an action that raises an Exception yields the result {error: ...},
\* the packet carrying it is handed to the transport, and control returns
\* to the scheduler (or to all_task_reg) for the following events
C4_RaisingActionIsolated ==
    /\ (ev.op = "action" /\ ev.outcome = "Exception"
            => ~ev.raised /\ ev.error /\ ev.packed /\ pc = "send" /\ pack.error)
    /\ (ev.op = "send_infor" /\ ev.error /\ ev.outcome # "KeyboardInterrupt"
            => pc \in {"reg", "yield"})

\* C5: whatever the transport and the delivery failure, send_infor returns
\* normally and the scheduler goes on with its pending events
C5_SendNeverRaises ==
    (ev.op = "send_infor" /\ ev.outcome # "KeyboardInterrupt")
    => /\ ~ev.raised
       /\ pc \in {"reg", "yield"}

\* C6: with AcceptDelayTrigger, an accepted connection whose request names
\* a configured monType makes wait return the command, the task is
\* enqueued for the current time at its priority, and the response says
\* is_ok = true
C6_CommandRunsTask ==
    (ev.op = "delayfunc" /\ timer = "AcceptDelayTrigger" /\ ev.accepted
        /\ mon_index(ev.req) # 0)
    => /\ ev.ret = ev.req
       /\ ev.responses = 1 /\ ev.isOk
       /\ ev.enq = mon_index(ev.req)
       /\ BagIn(Event(now, conf[mon_index(ev.req)].execPrio, "once",
                      mon_index(ev.req)), q)

\* C7: a delayfunc call whose wait returned a command that is not None
\* calls response exactly once
C7_OneResponsePerCommand ==
    (ev.op = "delayfunc" /\ ev.ret \notin {"none", "null", "raised"})
    => ev.responses = 1

C9_OneRecovery ==
    (ev.op = "send_infor" /\ trans = "LongTCP" /\ ev.outcome # "KeyboardInterrupt")
    => /\ ~ev.raised
       /\ pc \in {"reg", "yield"}
       /\ IF ev.ok
          THEN ev.trace = <<"send">> /\ sock = "connected"
          ELSE /\ ev.trace = <<"send", "connection_close", "connect">>
               /\ sock \in {"connected", "unconnected"}

\* C9 witness: the send failed and the one reconnect attempt failed too
C9_Witness ==
    /\ ev.op = "send_infor" /\ trans = "LongTCP"
    /\ ~ev.ok /\ sock = "unconnected" /\ pc = "yield"

\* KeyboardInterrupt was delivered in the last step
Interrupted ==
    /\ ev.op \in {"action", "send_infor", "delayfunc"}
    /\ ev.outcome = "KeyboardInterrupt"

\* C10: after KeyboardInterrupt, delivered in a wait, an action or a send,
\* run_forever has left the scheduler, connection_close has been called
\* once, and the agent takes no further step
C10_InterruptStops ==
    Interrupted
    => /\ pc = "done"
       /\ fclose = 1
       /\ cur = NoCur
       /\ ~ENABLED (RegTask \/ Fire \/ Exec \/ Send \/ DelayTimeout
                    \/ DelayAccept \/ DelayCommand)

\* C10 witness: the interrupt came during a wait of a LongTCP agent that
\* had run tasks, and the connection is closed
C10_Witness ==
    /\ Interrupted /\ ev.op = "delayfunc"
    /\ trans = "LongTCP" /\ sock = "closed" /\ execs > 0

\* the events of a queue that come before (due, prio) in the order of
\* the scheduler: an earlier due time, or the same and a smaller priority
Before(queue, due, prio) ==
    { f \in BagToSet(queue) :
        f.time < due \/ (f.time = due /\ f.prio < prio) }

\* C11 as stated: whenever a task's action is run, at registration, on a
\* recurring fire or on a command's fire, no pending event comes before
\* it in (due time, priority)
C11_AlwaysInOrder ==
    pc = "action" => Before(q, cur.due, conf[cur.task].execPrio) = {}

\* C11 amended: on a recurring fire and on a command's fire no pending
\* event comes before the one that runs; all_task_reg runs the tasks in
\* the order of monItems; one task is run at a time
C11_FiresInOrder ==
    /\ (pc = "action" /\ cur.via \in {"reg", "once"}
            => Before(q, cur.due, conf[cur.task].execPrio) = {})
    /\ (pc = "action" /\ cur.via = "all_task_reg" => cur.task = nreg)
    /\ (pc \in {"action", "send"} <=> cur # NoCur)

\* C11 witness: a fire chosen by priority among events due at the same time
C11_Witness ==
    /\ pc = "action" /\ cur.via = "reg"
    /\ \E f \in BagToSet(q) :
        f.time = cur.due /\ f.prio > conf[cur.task].execPrio

\* the pending events of task i in a queue, counted with their copies
Pending(queue, i) ==
    LET S == {e \in BagToSet(queue) : e.task = i}
    IN  BagCardinality([e \in S |-> CopiesIn(e, queue)])

\* C12 as stated: no sequence of fires, failures and received commands
\* leaves two pending events for the same task
C12_OnePendingPerTask ==
    \A i \in 1..Len(conf) : Pending(q, i) <= 1

\* C12 amended: each task has at most one recurring event pending, and
\* exactly one once it is registered; the event of a received command is
\* pending beside it until it fires
C12_OneRecurringPerTask ==
    \A i \in 1..Len(conf) :
        /\ Cardinality(RegEvents(q, i)) = IF i <= nreg THEN 1 ELSE 0
        /\ \A e \in RegEvents(q, i) : CopiesIn(e, q) = 1

\* C12 witness: a command's event is pending beside the recurring event
\* of its task
C12_Witness ==
    /\ pc = "run"
    /\ \E i \in 1..Len(conf) :
        /\ Cardinality(RegEvents(q, i)) = 1
        /\ Pending(q, i) = 2

\* wait returned a command that names no configured monType and is not
\* the reserved 'update'
UnknownCommand(e) ==
    /\ e.op = "delayfunc"
    /\ e.ret \notin {"none", "null", "raised", "update"}
    /\ mon_index(e.ret) = 0

\* C13: a delayfunc call whose wait returns an unknown command name sends
\* one failure response with an error message, enqueues nothing, runs no
\* action and leaves the pending set and the configuration as they were
C13_UnknownCommandNoEffect ==
    [][ (Waiting /\ pc' = "run" /\ UnknownCommand(ev'))
        => /\ ev'.responses = 1 /\ ~ev'.isOk /\ ev'.detail = "invalid cmd"
           /\ ev'.enq = 0
           /\ q' = q /\ conf' = conf /\ nreg' = nreg
           /\ execs' = execs /\ cur' = cur
           /\ conn' = "closed" ]_vars

\* C13 witness: an unknown command was answered while tasks were pending
C13_Witness ==
    /\ UnknownCommand(ev) /\ ev.responses = 1
    /\ pc = "run" /\ q # EmptyBag

\* C14: scher.run, once entered by run_forever, neither returns nor is
\* left by an exception other than KeyboardInterrupt
C14_OnlyInterruptEnds ==
    /\ pc # "returned"
    /\ (pc = "crashed" => ev.op \in {"action", "send_infor"} /\ ev.via = "all_task_reg")

\* C15: for the LongTCP strategy a failed connect at construction is only
\* logged; __init__ completes and the agent can enter its run loop
C15_CtorSurvivesConnectFailure ==
    /\ pc # "ctor_failed"
    /\ (ev.op = "__init__" => ~ev.raised)

\* the events of a queue that are not one-off events of task i, with
\* their multiplicities
Others(queue, i) ==
    LET S == {e \in BagToSet(queue) : ~(e.kind = "once" /\ e.task = i)}
    IN  [e \in S |-> CopiesIn(e, queue)]

\* C16: a command's execution is a one-off.  Enqueuing it adds one event
\* of the named task, due at once with the task's priority, and firing it
\* removes that event; neither changes the task's recurring event or any
\* other task's events.  The fired event runs the action once, gives the
\* packet to send_infor once and enters nothing into the queue.
C16_CommandRunIsOneOff ==
    [][ /\ (Waiting /\ ev'.op = "delayfunc" /\ ev'.enq # 0
            => /\ Others(q', ev'.enq) = Others(q, ev'.enq)
               /\ Pending(q', ev'.enq) = Pending(q, ev'.enq) + 1
               /\ \E e \in BagToSet(q') :
                    /\ e.task = ev'.enq /\ e.kind = "once"
                    /\ e.time = now' /\ e.prio = conf[e.task].execPrio
                    /\ CopiesIn(e, q') = CopiesIn(e, q) + 1)
        /\ (pc = "run" /\ pc' = "action" /\ cur'.via = "once"
            => /\ Others(q', cur'.task) = Others(q, cur'.task)
               /\ Pending(q', cur'.task) = Pending(q, cur'.task) - 1)
        /\ (pc = "action" /\ cur.via = "once"
            => /\ q' = q /\ execs' = execs + 1
               /\ pc' \in {"send", "done", "crashed"})
        /\ (pc = "send" /\ cur.via = "once"
            => /\ q' = q /\ execs' = execs
               /\ (ev'.op = "send_infor"
                    => /\ Count(ev'.trace, "send") + Count(ev'.trace, "sendto") <= 1
                       /\ cur' = NoCur
                       /\ pc' \in {"yield", "done", "crashed"})) ]_vars

\* C16 witness: a command's event ran and its packet was sent while the
\* task's recurring event and another task's event stayed pending
C16_Witness ==
    /\ ev.op = "send_infor" /\ ev.via = "once" /\ ev.ok
    /\ pc = "yield"
    /\ RegEvents(q, ev.task) # {}
    /\ \E e \in BagToSet(q) : e.task # ev.task

\* C17: when the timer's wait raises an Exception, delayfunc does not
\* raise: it answers at most once, enqueues nothing and returns to the
\* scheduler as if no command had been received
C17_WaitErrorContained ==
    (ev.op = "delayfunc" /\ ev.ret = "raised" /\ ev.outcome # "KeyboardInterrupt")
        => /\ ~ev.raised /\ ev.outcome = "return"
           /\ ev.responses <= 1 /\ ev.enq = 0
           /\ pc = "run"

LongTCP_sends ==
    /\ trans = "LongTCP" /\ pc = "send"
    /\ ev'.op = "send_infor" /\ ev'.outcome # "KeyboardInterrupt"

Sends(trace) == Count(trace, "send") + Count(trace, "sendto")

\* C20: at-most-once delivery.  A packet comes into being with one more
\* task execution; send_infor gives it to the socket's send at most once and
\* nothing is kept of it afterwards, whether the send succeeded or not: it
\* is not sent again after a reconnect or a socket reset and not queued.
\* So the packets on the wire never outnumber the executions.
C20_AtMostOnce ==
    [][ /\ (pc # "send" /\ pc' = "send"
            => execs' = execs + 1 /\ pack = NoPack /\ pack' # NoPack)
        /\ (pc = "send" /\ pc' # "send"
            => /\ Sends(ev'.trace) <= 1
               /\ (ev'.ok => Sends(ev'.trace) = 1)
               /\ execs' = execs /\ q' = q)
        /\ (pc' # "send" => pack' = NoPack)
        /\ (pc = "send" /\ pc' = "send" => pack' = pack /\ execs' = execs) ]_vars

\* C20 witness: a datagram's sendto failed, the socket was reset and the
\* packet is gone while the agent goes on
C20_Witness ==
    /\ trans = "UDP"
    /\ ev.op = "send_infor" /\ ~ev.ok /\ ~ev.raised
    /\ Sends(ev.trace) = 1 /\ sock = "open"
    /\ pack = NoPack /\ pc = "yield" /\ execs >= 2

====
